---- MODULE Spec2Model ----
(***************************************************************************)
(* sumflow: transactional outbox (adder), relay to the log (Kafka) and     *)
(* idempotent consumer (totalizer).                                        *)
(*                                                                         *)
(* Granularity: every SQL statement, every log write, every log fetch and  *)
(* every offset commit is one atomic step.  A database transaction is      *)
(* visible to others only from its commit on.                              *)
(*                                                                         *)
(* Identifiers.  The outbox row id is generated by the database            *)
(* (gen_random_uuid(), InsertInTx does not pass event.ID); the i-th row    *)
(* inserted has id i.  The in-memory uuid.New() of the i-th event is       *)
(* <<"uuid", i>> and is only used as the aggregate id.                     *)
(*                                                                         *)
(* Time.  now is the wall clock, read by time.Now(); 0 stands for SQL NULL  *)
(* in published_at.  Time passes by Tick steps only.                       *)
(***************************************************************************)
EXTENDS Integers, Sequences, FiniteSets, TLC

VARIABLES
    now,        \* wall clock (time.Now())
    rows,       \* table outbox, in insertion order; rows[i] is the row with id i
    call,       \* producer calls in flight, per slot
    relay,      \* per relay instance: the batch being processed
    log,        \* the topic (one partition), in write order
    cons,       \* the consumer: loop position, reader position, open transaction
    committed,  \* the consumer group's committed offset (number of messages)
    dedup,      \* table processed_events (committed rows): set of event ids
    total,      \* table totals, row 1, column total
    applied,    \* history: per event id, how often T was incremented for it
    group       \* consumer instances working on the consumer database side by side

vars == <<now, rows, call, relay, log, cons, committed, dedup, total, applied, group>>

(***************************************************************************)
(* Bounds of the model and scaled-down configuration.                      *)
(***************************************************************************)
MaxEvents == 2      \* outbox rows ever inserted (one more where only the relay runs)
MaxVal == 2         \* request operands range over 1..MaxVal where the sum matters
MaxKeys == 1        \* aggregate ids a direct caller of InsertInTx may force
MaxTime == 2        \* the clock runs from 1 to MaxTime
MaxLog == 2         \* MarkPublished fails only while the topic holds at most MaxLog messages
MaxTopic == 3       \* length of the topic the consumer is checked on alone
BatchSize == 2      \* RelayConfig.BatchSize (default 100)
MaxRetries == 2     \* RelayConfig.MaxRetries (default 5)
Retention == 1      \* RelayConfig.RetentionPeriod (default 7 days), in ticks
MaxErrLen == 3      \* longest text of a publisher error, in characters
IntBits == 3        \* width in bits of the request and response integers (32 in the service)

Vals == 1 .. MaxVal
Slots == {1}
NULL == 0

Min(a, b) == IF a < b THEN a ELSE b

RECURSIVE SumOver(_, _)
SumOver(S, f) ==
    IF S = {} THEN 0
    ELSE LET e == CHOOSE e \in S : TRUE
         IN  f[e] + SumOver(S \ {e}, f)

RowIds == 1 .. Len(rows)

(***************************************************************************)
(* Producer: AdderService.Add and outbox.NewSumCalculatedEvent.            *)
(***************************************************************************)
SumCalculatedPayload(x, y, result) == [x |-> x, y |-> y, result |-> result]

AddSum(x, y) == x + y

\* uuid.New() in the i-th call of NewSumCalculatedEvent.
NewUuid(i) == <<"uuid", i>>

\* The id that the column default gen_random_uuid() gives the i-th row.
RowId(i) == <<"db", i>>

\* The event built by NewSumCalculatedEvent(x, y, result), as the row that
\* InsertInTx writes: id and retry_count come from the column defaults.
\* eid is Event.ID of the event in memory; InsertInTx does not pass it, it
\* is kept with the row only to compare with.
\* key = 0: AggregateID is the event's own uuid string; key > 0: a caller of
\* InsertInTx that sets AggregateID itself.
NewSumCalculatedEvent(i, x, y, result, key) ==
    [ eid       |-> NewUuid(i),
      agg       |-> IF key = 0 THEN NewUuid(i) ELSE <<"key", key>>,
      type      |-> "sum.calculated",
      payload   |-> SumCalculatedPayload(x, y, result),
      created   |-> now,
      published |-> NULL,
      retry     |-> 0,
      lastError |-> NULL,
      state     |-> "open" ]

IdleCall == [pc |-> "idle", x |-> 0, y |-> 0, row |-> 0, ret |-> 0]

CanStart(p) == call[p].pc \in {"idle", "ok", "err"}

\* pool.Begin succeeds.
AddBegin(p, x, y, maxRows) ==
    /\ CanStart(p)
    /\ Len(rows) < maxRows
    /\ call' = [call EXCEPT ![p] = [pc |-> "begun", x |-> x, y |-> y, row |-> 0, ret |-> 0]]
    /\ UNCHANGED <<now, rows, relay, log, cons, committed, dedup, total, applied, group>>

\* pool.Begin fails: Add returns (0, err).
AddBeginErr(p, x, y) ==
    /\ CanStart(p)
    /\ call' = [call EXCEPT ![p] = [pc |-> "err", x |-> x, y |-> y, row |-> 0, ret |-> 0]]
    /\ UNCHANGED <<now, rows, relay, log, cons, committed, dedup, total, applied, group>>

\* NewSumCalculatedEvent and InsertInTx succeed: the row exists in the open
\* transaction only.
AddInsert(p, key) ==
    /\ call[p].pc = "begun"
    /\ LET i == Len(rows) + 1
           e == NewSumCalculatedEvent(i, call[p].x, call[p].y,
                                      AddSum(call[p].x, call[p].y), key)
       IN  /\ rows' = Append(rows, e)
           /\ call' = [call EXCEPT ![p].pc = "inserted", ![p].row = i]
    /\ UNCHANGED <<now, relay, log, cons, committed, dedup, total, applied, group>>

\* InsertInTx, called with an event whose ID is the ID of the event of a
\* committed row j: the statement names no id column, so the row is written
\* like any other.
InsertSameId(p, j) ==
    /\ call[p].pc = "begun"
    /\ j \in RowIds
    /\ rows[j].state = "committed"
    /\ LET i == Len(rows) + 1
           e == NewSumCalculatedEvent(i, call[p].x, call[p].y,
                                      AddSum(call[p].x, call[p].y), 0)
       IN  /\ rows' = Append(rows, [e EXCEPT !.eid = rows[j].eid, !.agg = rows[j].eid])
           /\ call' = [call EXCEPT ![p].pc = "inserted", ![p].row = i]
    /\ UNCHANGED <<now, relay, log, cons, committed, dedup, total, applied, group>>

\* InsertInTx fails: Add returns (0, err), the deferred Rollback ends the transaction.
AddInsertErr(p) ==
    /\ call[p].pc = "begun"
    /\ call' = [call EXCEPT ![p].pc = "err"]
    /\ UNCHANGED <<now, rows, relay, log, cons, committed, dedup, total, applied, group>>

StateAfterCommit == "committed"

\* Mutant of StateAfterCommitErr: the row survives a failed commit.
StateAfterCommitErrKept == "committed"

\* A failed tx.Commit (and the deferred Rollback) leaves nothing of the
\* transaction.
StateAfterCommitErr == "aborted"

\* tx.Commit succeeds: Add returns (sum, nil).
AddCommit(p) ==
    /\ call[p].pc = "inserted"
    /\ rows' = [rows EXCEPT ![call[p].row].state = StateAfterCommit]
    /\ call' = [call EXCEPT ![p].pc = "ok", ![p].ret = AddSum(call[p].x, call[p].y)]
    /\ UNCHANGED <<now, relay, log, cons, committed, dedup, total, applied, group>>

\* tx.Commit fails: nothing of the transaction is kept, Add returns (0, err).
AddCommitErr(p) ==
    /\ call[p].pc = "inserted"
    /\ rows' = [rows EXCEPT ![call[p].row].state = StateAfterCommitErr]
    /\ call' = [call EXCEPT ![p].pc = "err"]
    /\ UNCHANGED <<now, relay, log, cons, committed, dedup, total, applied, group>>

(***************************************************************************)
(* Outbox repository.                                                      *)
(***************************************************************************)
\* Mutant of Visible: rows of open transactions are read too.
VisibleDirty(i) == rows[i].state \in {"committed", "open"}

\* Rows a statement of another session can see.
Visible(i) == rows[i].state = "committed"

\* Row locks that are held while relay r runs a statement: FetchUnpublished
\* runs on the pool outside any transaction (pool.Query), so the locks
\* FOR UPDATE takes are released when the statement ends, and MarkPublished
\* and MarkFailed are single statements too.
RowLocksHeld(r) == {}

\* What rows.Scan copies into the Event: the id and the retry_count as of
\* the fetch (the other columns never change after the insert).
Scan(i) == [id |-> i, retry |-> rows[i].retry]

\* s lists n rows of cand in ascending created_at, and no row left out is
\* older than a row listed (ORDER BY created_at ASC LIMIT n).
IsOldestFirst(s, cand) ==
    /\ \A k, l \in DOMAIN s : k < l => s[k] # s[l] /\ rows[s[k]].created <= rows[s[l]].created
    /\ \A j \in cand \ {s[k] : k \in DOMAIN s} :
           \A k \in DOMAIN s : rows[s[k]].created <= rows[j].created

\* Mutant of FetchUnpublished: the WHERE clause is missing.
FetchAll(r, limit) ==
    LET cand == {i \in RowIds : Visible(i) /\ i \notin RowLocksHeld(r)}
        n    == Min(limit, Cardinality(cand))
    IN  { [k \in 1 .. n |-> Scan(s[k])] : s \in {t \in [1 .. n -> cand] : IsOldestFirst(t, cand)} }

\* SELECT ... WHERE published_at IS NULL ORDER BY created_at ASC LIMIT n
\* FOR UPDATE SKIP LOCKED: the possible results (rows of equal created_at
\* come in any order).
FetchUnpublished(r, limit) ==
    LET cand == {i \in RowIds : Visible(i) /\ rows[i].published = NULL
                                /\ i \notin RowLocksHeld(r)}
        n    == Min(limit, Cardinality(cand))
    IN  { [k \in 1 .. n |-> Scan(s[k])] : s \in {t \in [1 .. n -> cand] : IsOldestFirst(t, cand)} }

\* UPDATE outbox SET published_at = now WHERE id = i
MarkPublished(i) ==
    IF Visible(i) THEN [rows EXCEPT ![i].published = now] ELSE rows

\* Texts of errors (err.Error()), by their length: a text has at least one
\* character; last_error NULL is 0.
ErrorTexts == 1 .. MaxErrLen

\* The error text in the specifications that do not look at last_error.
OneError == {1}

\* Mutant of MarkFailed: the UPDATE has no WHERE clause.
MarkFailedEveryRow(i, msg) ==
    [k \in RowIds |-> IF Visible(k)
                      THEN [rows[k] EXCEPT !.retry = @ + 1, !.lastError = msg]
                      ELSE rows[k]]

\* Mutant of MarkFailed: the UPDATE resets published_at.
MarkFailedClearsPublished(i, msg) ==
    IF Visible(i)
    THEN [rows EXCEPT ![i].retry = @ + 1, ![i].lastError = msg, ![i].published = NULL]
    ELSE rows

\* UPDATE outbox SET retry_count = retry_count + 1, last_error = msg WHERE id = i
MarkFailed(i, msg) ==
    IF Visible(i)
    THEN [rows EXCEPT ![i].retry = @ + 1, ![i].lastError = msg]
    ELSE rows

\* Mutant of Expired: the age is taken from created_at.
ExpiredByCreated(i) ==
    /\ Visible(i)
    /\ rows[i].created < now - Retention

\* DELETE FROM outbox WHERE published_at IS NOT NULL AND published_at < now - retention
Expired(i) ==
    /\ Visible(i)
    /\ rows[i].published # NULL
    /\ rows[i].published < now - Retention

CleanupOldEvents ==
    [i \in RowIds |-> IF Expired(i) THEN [rows[i] EXCEPT !.state = "deleted"] ELSE rows[i]]

(***************************************************************************)
(* Publisher: KafkaProducer.PublishEvent.                                  *)
(***************************************************************************)
\* Event.ToJSON of the fetched event with PublishedAt set to the current instant.
Envelope(i, t) ==
    [ id        |-> i,
      agg       |-> rows[i].agg,
      type      |-> rows[i].type,
      valid     |-> TRUE,
      payloadOk |-> TRUE,
      result    |-> rows[i].payload.result,
      created   |-> rows[i].created,
      published |-> t ]

InLog(i) == \E k \in 1 .. Len(log) : log[k].id = i

(***************************************************************************)
(* The writer's balancer (kafka.LeastBytes).  log is the sequence of the   *)
(* messages the writer has written; the balancer keeps a byte counter per  *)
(* partition and sends each message to the first partition with the        *)
(* smallest counter, whatever the key of the message.                      *)
(***************************************************************************)
Partitions == 6

\* len(msg.Key) + len(msg.Value): the envelopes of the model have one length.
MsgBytes(m) == 1

RECURSIVE Counters(_)
\* The byte counters after the first k messages.
Counters(k) ==
    IF k = 0 THEN [q \in 1 .. Partitions |-> 0]
    ELSE LET c == Counters(k - 1)
             least == CHOOSE q \in 1 .. Partitions :
                          /\ \A o \in 1 .. Partitions : c[q] <= c[o]
                          /\ \A o \in 1 .. q - 1 : c[o] > c[q]
         IN  [c EXCEPT ![least] = @ + MsgBytes(log[k])]

\* The partition the k-th message was written to.
PartitionOf(k) ==
    CHOOSE q \in 1 .. Partitions : Counters(k)[q] # Counters(k - 1)[q]

(***************************************************************************)
(* Relay: Relay.processBatch, one row per step.                            *)
(***************************************************************************)
IdleRelay == [batch |-> <<>>, sent |-> FALSE]

Current(r) == relay[r].batch[1]

\* Mutant of Exhausted: the relay gives up one failure too early.
ExhaustedEarly(e) == e.retry >= MaxRetries - 1

\* event.RetryCount >= r.config.MaxRetries, on the event as fetched.
Exhausted(e) == e.retry >= MaxRetries

Advance(r) == [relay EXCEPT ![r].batch = Tail(@), ![r].sent = FALSE]

\* A tick of the publish loop: FetchUnpublished.
ProcessBatch(r) ==
    /\ relay[r].batch = <<>>
    /\ \E events \in FetchUnpublished(r, BatchSize) :
           relay' = [relay EXCEPT ![r].batch = events]
    /\ UNCHANGED <<now, rows, call, log, cons, committed, dedup, total, applied, group>>

\* retry_count >= MaxRetries: log and continue.
SkipExhausted(r) ==
    /\ relay[r].batch # <<>>
    /\ ~relay[r].sent
    /\ Exhausted(Current(r))
    /\ relay' = Advance(r)
    /\ UNCHANGED <<now, rows, call, log, cons, committed, dedup, total, applied, group>>

\* PublishEvent succeeds: the message is in the log.
PublishOK(r) ==
    /\ relay[r].batch # <<>>
    /\ ~relay[r].sent
    /\ ~Exhausted(Current(r))
    /\ log' = Append(log, Envelope(Current(r).id, now))
    /\ relay' = [relay EXCEPT ![r].sent = TRUE]
    /\ UNCHANGED <<now, rows, call, cons, committed, dedup, total, applied, group>>

\* Mutant of PublishFail: processBatch returns at the first failed publication.
PublishFailAbort(r, errs) ==
    /\ relay[r].batch # <<>>
    /\ ~relay[r].sent
    /\ ~Exhausted(Current(r))
    /\ \E msg \in errs : rows' = MarkFailed(Current(r).id, msg)
    /\ relay' = [relay EXCEPT ![r].batch = <<>>, ![r].sent = FALSE]
    /\ UNCHANGED <<now, call, log, cons, committed, dedup, total, applied, group>>

\* PublishEvent fails with an error whose text is in errs, and
\* MarkFailed(ctx, event.ID, err.Error()) succeeds.
PublishFail(r, errs) ==
    /\ relay[r].batch # <<>>
    /\ ~relay[r].sent
    /\ ~Exhausted(Current(r))
    /\ \E msg \in errs : rows' = MarkFailed(Current(r).id, msg)
    /\ relay' = Advance(r)
    /\ UNCHANGED <<now, call, log, cons, committed, dedup, total, applied, group>>

\* PublishEvent fails and MarkFailed fails too (both only logged).
PublishFailMarkErr(r) ==
    /\ relay[r].batch # <<>>
    /\ ~relay[r].sent
    /\ ~Exhausted(Current(r))
    /\ relay' = Advance(r)
    /\ UNCHANGED <<now, rows, call, log, cons, committed, dedup, total, applied, group>>

\* MarkPublished succeeds.
MarkPublishedOK(r) ==
    /\ relay[r].sent
    /\ rows' = MarkPublished(Current(r).id)
    /\ relay' = Advance(r)
    /\ UNCHANGED <<now, call, log, cons, committed, dedup, total, applied, group>>

\* Mutant of MarkPublishedErr: a failed MarkPublished is booked as a failed
\* publication.
MarkPublishedErrAsFailed(r) ==
    /\ relay[r].sent
    /\ Len(log) <= MaxLog
    /\ \E msg \in OneError : rows' = MarkFailed(Current(r).id, msg)
    /\ relay' = Advance(r)
    /\ UNCHANGED <<now, call, log, cons, committed, dedup, total, applied, group>>

\* MarkPublished fails (only logged): the row stays unpublished.
MarkPublishedErr(r) ==
    /\ relay[r].sent
    /\ Len(log) <= MaxLog
    /\ relay' = Advance(r)
    /\ UNCHANGED <<now, rows, call, log, cons, committed, dedup, total, applied, group>>

\* The adder process dies and is started again: the batch in memory is
\* gone, the tables and the topic are as they were (between PublishEvent and
\* MarkPublished only while the topic holds at most MaxLog messages).
RelayCrash(r) ==
    /\ relay[r].batch # <<>>
    /\ relay[r].sent => Len(log) <= MaxLog
    /\ relay' = [relay EXCEPT ![r] = IdleRelay]
    /\ UNCHANGED <<now, rows, call, log, cons, committed, dedup, total, applied, group>>

\* A tick of the cleanup loop.
Cleanup ==
    /\ \E i \in RowIds : Expired(i)
    /\ rows' = CleanupOldEvents
    /\ UNCHANGED <<now, call, relay, log, cons, committed, dedup, total, applied, group>>

\* Time passes, up to max.
Tick(max) ==
    /\ now < max
    /\ now' = now + 1
    /\ UNCHANGED <<rows, call, relay, log, cons, committed, dedup, total, applied, group>>

(***************************************************************************)
(* Relay lifecycle: Start, Stop and the two loops.  Each loop is "idle"    *)
(* until Start, then "running" (at its select unless a batch is under way) *)
(* and "exited" once its select has taken ctx.Done() or stopCh.  A select  *)
(* with several ready cases takes any one of them.                         *)
(***************************************************************************)
NewRelay ==
    [ batch       |-> <<>>,
      sent        |-> FALSE,
      stopCh      |-> "open",
      ctx         |-> "live",
      publishLoop |-> "idle",
      cleanupLoop |-> "idle" ]

Signalled(r) == relay[r].stopCh = "closed" \/ relay[r].ctx = "done"

\* go r.runPublishLoop(ctx); go r.runCleanupLoop(ctx)
Start(r) ==
    /\ relay[r].publishLoop = "idle"
    /\ relay[r].cleanupLoop = "idle"
    /\ relay' = [relay EXCEPT ![r].publishLoop = "running", ![r].cleanupLoop = "running"]
    /\ UNCHANGED <<now, rows, call, log, cons, committed, dedup, total, applied, group>>

\* close(r.stopCh), called once.
Stop(r) ==
    /\ relay[r].stopCh = "open"
    /\ relay' = [relay EXCEPT ![r].stopCh = "closed"]
    /\ UNCHANGED <<now, rows, call, log, cons, committed, dedup, total, applied, group>>

\* The context passed to Start is cancelled.
Cancel(r) ==
    /\ relay[r].ctx = "live"
    /\ relay' = [relay EXCEPT ![r].ctx = "done"]
    /\ UNCHANGED <<now, rows, call, log, cons, committed, dedup, total, applied, group>>

\* case <-ticker.C of the publish loop, and the batch it starts.
PublishLoopStep(r) ==
    /\ relay[r].publishLoop = "running"
    /\ \/ ProcessBatch(r)
       \/ SkipExhausted(r)
       \/ PublishOK(r)
       \/ PublishFail(r, OneError)
       \/ PublishFailMarkErr(r)
       \/ MarkPublishedOK(r)
       \/ MarkPublishedErr(r)

\* Mutant of PublishLoopExit: the signal case leaves the select, not the loop.
PublishLoopExitBreak(r) ==
    /\ relay[r].publishLoop = "running"
    /\ relay[r].batch = <<>>
    /\ Signalled(r)
    /\ UNCHANGED vars

\* case <-ctx.Done() / case <-r.stopCh of the publish loop: return.
PublishLoopExit(r) ==
    /\ relay[r].publishLoop = "running"
    /\ relay[r].batch = <<>>
    /\ Signalled(r)
    /\ relay' = [relay EXCEPT ![r].publishLoop = "exited"]
    /\ UNCHANGED <<now, rows, call, log, cons, committed, dedup, total, applied, group>>

\* case <-ticker.C of the cleanup loop.
CleanupLoopStep(r) ==
    /\ relay[r].cleanupLoop = "running"
    /\ Cleanup

\* case <-ctx.Done() / case <-r.stopCh of the cleanup loop: return.
CleanupLoopExit(r) ==
    /\ relay[r].cleanupLoop = "running"
    /\ Signalled(r)
    /\ relay' = [relay EXCEPT ![r].cleanupLoop = "exited"]
    /\ UNCHANGED <<now, rows, call, log, cons, committed, dedup, total, applied, group>>

(***************************************************************************)
(* Consumer: Consumer.consumeLoop and Consumer.processMessage.             *)
(*                                                                         *)
(* The reader (kafka-go, group mode) hands out the messages of the         *)
(* partition one after the other and keeps its own position: FetchMessage  *)
(* returns the message after the last one it returned, whether or not      *)
(* that one was committed.  A new reader (process restart) starts at the   *)
(* group's committed offset.  CommitMessages(msg) sets the committed       *)
(* offset to the one after msg.                                            *)
(***************************************************************************)
Msg == log[cons.cur]

NoTx == [marked |-> FALSE, delta |-> 0]

\* telemetry.KafkaMessagesConsumed: the increments made for the current
\* message, per status label.
NoMetrics == [success |-> 0, duplicate |-> 0, error |-> 0]

Inc(status) == [cons.inc EXCEPT ![status] = @ + 1]

\* json.Unmarshal(msg.Value, &event) succeeds.
Decodes(m) == m.valid

\* Mutant of AlreadyProcessed: the insert never reports a conflict.
AlreadyProcessedNever(id) == FALSE

\* INSERT ... ON CONFLICT (event_id) DO NOTHING affects no row.
AlreadyProcessed(id) == id \in dedup

\* Mutant of OnProcessError: the offset is committed after an error too.
OnProcessErrorCommit == "commit"

\* What consumeLoop does when processMessage returned an error: continue,
\* without CommitMessages.
OnProcessError == "idle"

\* What consumeLoop does when processMessage returned nil: CommitMessages.
OnProcessed == "commit"

\* reader.FetchMessage returns the next message.
FetchMessage ==
    /\ cons.pc = "idle"
    /\ cons.pos <= Len(log)
    /\ cons' = [cons EXCEPT !.pc = "fetched", !.cur = cons.pos, !.pos = cons.pos + 1,
                            !.inc = NoMetrics]
    /\ UNCHANGED <<now, rows, call, relay, log, committed, dedup, total, applied, group>>

\* Mutant of DecodeErr: the decode error is returned to consumeLoop.
DecodeErrReturned ==
    /\ cons.pc = "fetched"
    /\ ~Decodes(Msg)
    /\ cons' = [cons EXCEPT !.pc = OnProcessError, !.inc = Inc("error")]
    /\ UNCHANGED <<now, rows, call, relay, log, committed, dedup, total, applied, group>>

\* The envelope does not decode: processMessage returns nil (poison message).
DecodeErr ==
    /\ cons.pc = "fetched"
    /\ ~Decodes(Msg)
    /\ cons' = [cons EXCEPT !.pc = OnProcessed, !.inc = Inc("error")]
    /\ UNCHANGED <<now, rows, call, relay, log, committed, dedup, total, applied, group>>

\* pool.Begin succeeds.
TxBegin ==
    /\ cons.pc = "fetched"
    /\ Decodes(Msg)
    /\ cons' = [cons EXCEPT !.pc = "begun"]
    /\ UNCHANGED <<now, rows, call, relay, log, committed, dedup, total, applied, group>>

\* pool.Begin fails: processMessage returns the error.
TxBeginErr ==
    /\ cons.pc = "fetched"
    /\ Decodes(Msg)
    /\ cons' = [cons EXCEPT !.pc = OnProcessError, !.inc = Inc("error")]
    /\ UNCHANGED <<now, rows, call, relay, log, committed, dedup, total, applied, group>>

\* Mutant of CheckAndMark: the dedup row is inserted outside the transaction
\* and is visible at once.
CheckAndMarkAutocommit ==
    /\ cons.pc = "begun"
    /\ ~AlreadyProcessed(Msg.id)
    /\ dedup' = dedup \cup {Msg.id}
    /\ cons' = [cons EXCEPT !.pc = "marked"]
    /\ UNCHANGED <<now, rows, call, relay, log, committed, total, applied, group>>

\* CheckAndMarkInTx inserts the dedup row in the open transaction.
CheckAndMark ==
    /\ cons.pc = "begun"
    /\ ~AlreadyProcessed(Msg.id)
    /\ cons' = [cons EXCEPT !.pc = "marked", !.marked = TRUE]
    /\ UNCHANGED <<now, rows, call, relay, log, committed, dedup, total, applied, group>>

\* Mutant of CheckDuplicate: the total is updated outside the transaction,
\* before the dedup check is looked at.
CheckDuplicateApplies ==
    /\ cons.pc = "begun"
    /\ AlreadyProcessed(Msg.id)
    /\ cons' = [cons EXCEPT !.pc = OnProcessed, !.marked = FALSE, !.delta = 0,
                            !.inc = Inc("duplicate")]
    /\ total' = total + Msg.result
    /\ UNCHANGED <<now, rows, call, relay, log, committed, dedup, applied, group>>

\* CheckAndMarkInTx returns ErrEventAlreadyProcessed: processMessage returns
\* nil, the deferred Rollback ends the transaction.
CheckDuplicate ==
    /\ cons.pc = "begun"
    /\ AlreadyProcessed(Msg.id)
    /\ cons' = [cons EXCEPT !.pc = OnProcessed, !.marked = FALSE, !.delta = 0,
                            !.inc = Inc("duplicate")]
    /\ UNCHANGED <<now, rows, call, relay, log, committed, dedup, total, applied, group>>

\* CheckAndMarkInTx fails with another error.
CheckErr ==
    /\ cons.pc = "begun"
    /\ cons' = [cons EXCEPT !.pc = OnProcessError, !.marked = FALSE, !.delta = 0,
                            !.inc = Inc("error")]
    /\ UNCHANGED <<now, rows, call, relay, log, committed, dedup, total, applied, group>>

\* handleEvent, "sum.calculated": the payload decodes and AddToTotalInTx
\* (UPDATE totals SET total = total + value) succeeds in the transaction.
HandleSumCalculated ==
    /\ cons.pc = "marked"
    /\ Msg.type = "sum.calculated"
    /\ Msg.payloadOk
    /\ cons' = [cons EXCEPT !.pc = "handled", !.delta = @ + Msg.result]
    /\ UNCHANGED <<now, rows, call, relay, log, committed, dedup, total, applied, group>>

\* Mutant of HandleUnknown: an unknown type is an error, the transaction is
\* rolled back.
HandleUnknownErr ==
    /\ cons.pc = "marked"
    /\ Msg.type # "sum.calculated"
    /\ cons' = [cons EXCEPT !.pc = OnProcessError, !.marked = FALSE, !.delta = 0,
                            !.inc = Inc("error")]
    /\ UNCHANGED <<now, rows, call, relay, log, committed, dedup, total, applied, group>>

\* handleEvent, any other type: logged, nil.
HandleUnknown ==
    /\ cons.pc = "marked"
    /\ Msg.type # "sum.calculated"
    /\ cons' = [cons EXCEPT !.pc = "handled"]
    /\ UNCHANGED <<now, rows, call, relay, log, committed, dedup, total, applied, group>>

\* Mutant of HandleErr: the transaction is committed on the error path, the
\* dedup row stays.
HandleErrCommitted ==
    /\ cons.pc = "marked"
    /\ Msg.type = "sum.calculated"
    /\ dedup' = dedup \cup {Msg.id}
    /\ cons' = [cons EXCEPT !.pc = OnProcessError, !.marked = FALSE, !.delta = 0,
                            !.inc = Inc("error")]
    /\ UNCHANGED <<now, rows, call, relay, log, committed, total, applied, group>>

\* handleSumCalculated fails: the payload does not decode, or AddToTotalInTx
\* fails.  processMessage returns the error, the transaction is rolled back.
HandleErr ==
    /\ cons.pc = "marked"
    /\ Msg.type = "sum.calculated"
    /\ cons' = [cons EXCEPT !.pc = OnProcessError, !.marked = FALSE, !.delta = 0,
                            !.inc = Inc("error")]
    /\ UNCHANGED <<now, rows, call, relay, log, committed, dedup, total, applied, group>>

\* tx.Commit succeeds: the dedup row and the increment become visible together.
TxCommit ==
    /\ cons.pc = "handled"
    /\ dedup' = IF cons.marked THEN dedup \cup {Msg.id} ELSE dedup
    /\ total' = total + cons.delta
    /\ applied' = IF Msg.type = "sum.calculated"
                  THEN [applied EXCEPT ![Msg.id] = @ + 1]
                  ELSE applied
    /\ cons' = [cons EXCEPT !.pc = OnProcessed, !.marked = FALSE, !.delta = 0,
                            !.inc = Inc("success")]
    /\ UNCHANGED <<now, rows, call, relay, log, committed, group>>

\* tx.Commit fails: nothing of the transaction is kept.
TxCommitErr ==
    /\ cons.pc = "handled"
    /\ cons' = [cons EXCEPT !.pc = OnProcessError, !.marked = FALSE, !.delta = 0,
                            !.inc = Inc("error")]
    /\ UNCHANGED <<now, rows, call, relay, log, committed, dedup, total, applied, group>>

\* reader.CommitMessages(msg) succeeds.
CommitMessages ==
    /\ cons.pc = "commit"
    /\ committed' = cons.cur
    /\ cons' = [cons EXCEPT !.pc = "idle"]
    /\ UNCHANGED <<now, rows, call, relay, log, dedup, total, applied, group>>

\* reader.CommitMessages(msg) fails (only logged).
CommitMessagesErr ==
    /\ cons.pc = "commit"
    /\ cons' = [cons EXCEPT !.pc = "idle"]
    /\ UNCHANGED <<now, rows, call, relay, log, committed, dedup, total, applied, group>>

\* Mutant of ConsumerRestart: the new reader goes on where the old one was,
\* as if fetched offsets were committed.
ConsumerRestartAtPosition ==
    /\ cons.pc # "idle" \/ cons.pos # committed + 1
    /\ cons' = [pc |-> "idle", pos |-> cons.pos, cur |-> 0, marked |-> FALSE, delta |-> 0,
                inc |-> NoMetrics]
    /\ UNCHANGED <<now, rows, call, relay, log, committed, dedup, total, applied, group>>

\* The totalizer process dies and is started again: an open transaction is
\* rolled back by the database, the new reader starts at the committed offset.
ConsumerRestart ==
    /\ cons.pc # "idle" \/ cons.pos # committed + 1
    /\ cons' = [pc |-> "idle", pos |-> committed + 1, cur |-> 0, marked |-> FALSE, delta |-> 0,
                inc |-> NoMetrics]
    /\ UNCHANGED <<now, rows, call, relay, log, committed, dedup, total, applied, group>>

(***************************************************************************)
(* Several consumer instances on one consumer database (READ COMMITTED).   *)
(* Each instance has its own reader and runs processMessage as above; the  *)
(* database serialises them:                                               *)
(*  - INSERT ... ON CONFLICT (event_id) DO NOTHING waits while another     *)
(*    open transaction holds an uncommitted row with that key, then        *)
(*    inserts nothing if that transaction committed;                       *)
(*  - UPDATE totals ... WHERE id = 1 waits while another open transaction  *)
(*    holds the lock of that row, then works on the committed value.       *)
(***************************************************************************)
Instances == {1, 2}

IdleInstance ==
    [ pc |-> "idle", pos |-> 1, cur |-> 0, marked |-> FALSE, locked |-> FALSE,
      base |-> 0, delta |-> 0, began |-> 0, committed |-> 0 ]

MsgOf(c) == log[group[c].cur]

RolledBack(c, pc) ==
    [group EXCEPT ![c].pc = pc, ![c].marked = FALSE, ![c].locked = FALSE,
                  ![c].base = 0, ![c].delta = 0]

\* Mutant of InsertBlocked: event_id is not a unique key, the insert never waits.
InsertBlockedNever(c) == FALSE

\* Another open transaction has inserted the row with this event_id.
InsertBlocked(c) ==
    \E d \in Instances \ {c} : group[d].marked /\ MsgOf(d).id = MsgOf(c).id

\* Mutant of TotalsRowLocked: the update takes no row lock.
TotalsRowLockedNever(c) == FALSE

\* Another open transaction has updated row 1 of totals.
TotalsRowLocked(c) == \E d \in Instances \ {c} : group[d].locked

\* reader.FetchMessage of instance c.
GroupFetch(c) ==
    /\ group[c].pc = "idle"
    /\ group[c].pos <= Len(log)
    /\ group' = [group EXCEPT ![c].pc = "fetched", ![c].cur = group[c].pos,
                              ![c].pos = group[c].pos + 1]
    /\ UNCHANGED <<now, rows, call, relay, log, cons, committed, dedup, total, applied>>

\* pool.Begin succeeds; began remembers T as it was then.
GroupBegin(c) ==
    /\ group[c].pc = "fetched"
    /\ group' = [group EXCEPT ![c].pc = "begun", ![c].began = total]
    /\ UNCHANGED <<now, rows, call, relay, log, cons, committed, dedup, total, applied>>

\* CheckAndMarkInTx: one row inserted.
GroupCheckAndMark(c) ==
    /\ group[c].pc = "begun"
    /\ ~InsertBlocked(c)
    /\ ~AlreadyProcessed(MsgOf(c).id)
    /\ group' = [group EXCEPT ![c].pc = "marked", ![c].marked = TRUE]
    /\ UNCHANGED <<now, rows, call, relay, log, cons, committed, dedup, total, applied>>

\* CheckAndMarkInTx: no row inserted, ErrEventAlreadyProcessed; processMessage
\* returns nil.
GroupCheckDuplicate(c) ==
    /\ group[c].pc = "begun"
    /\ ~InsertBlocked(c)
    /\ AlreadyProcessed(MsgOf(c).id)
    /\ group' = RolledBack(c, OnProcessed)
    /\ UNCHANGED <<now, rows, call, relay, log, cons, committed, dedup, total, applied>>

\* AddToTotalInTx: UPDATE totals SET total = total + value WHERE id = 1.
GroupAddToTotal(c) ==
    /\ group[c].pc = "marked"
    /\ ~TotalsRowLocked(c)
    /\ group' = [group EXCEPT ![c].pc = "handled", ![c].locked = TRUE,
                              ![c].base = total, ![c].delta = MsgOf(c).result]
    /\ UNCHANGED <<now, rows, call, relay, log, cons, committed, dedup, total, applied>>

\* tx.Commit succeeds: the row versions written by the transaction are installed.
GroupCommit(c) ==
    /\ group[c].pc = "handled"
    /\ dedup' = dedup \cup {MsgOf(c).id}
    /\ total' = group[c].base + group[c].delta
    /\ applied' = [applied EXCEPT ![MsgOf(c).id] = @ + 1]
    /\ group' = RolledBack(c, OnProcessed)
    /\ UNCHANGED <<now, rows, call, relay, log, cons, committed>>

\* pool.Begin, CheckAndMarkInTx, AddToTotalInTx or tx.Commit fails:
\* processMessage returns the error, the transaction (if any) is rolled back.
GroupError(c) ==
    /\ group[c].pc \in {"fetched", "begun", "marked", "handled"}
    /\ group' = RolledBack(c, OnProcessError)
    /\ UNCHANGED <<now, rows, call, relay, log, cons, committed, dedup, total, applied>>

\* reader.CommitMessages(msg) of instance c.
GroupCommitMessages(c) ==
    /\ group[c].pc = "commit"
    /\ group' = [group EXCEPT ![c].pc = "idle", ![c].committed = group[c].cur]
    /\ UNCHANGED <<now, rows, call, relay, log, cons, committed, dedup, total, applied>>

(***************************************************************************)
(* Initial state: empty tables, empty topic, nothing in flight.            *)
(***************************************************************************)
IdleConsumer ==
    [pc |-> "idle", pos |-> 1, cur |-> 0, marked |-> FALSE, delta |-> 0, inc |-> NoMetrics]

\* Event ids: the ids of the outbox rows, and two ids of events that some
\* other producer wrote to the topic.
UnknownTypeId == MaxEvents + 1
BadPayloadId == MaxEvents + 2
EventIds == 1 .. MaxEvents + 2

Init ==
    /\ now = 1
    /\ rows = <<>>
    /\ call = [p \in Slots |-> IdleCall]
    /\ relay = [r \in {1, 2} |-> IdleRelay]
    /\ log = <<>>
    /\ cons = IdleConsumer
    /\ committed = 0
    /\ dedup = {}
    /\ total = 0
    /\ applied = [i \in EventIds |-> 0]
    /\ group = [c \in Instances |-> IdleInstance]

\* Calls of Add (key 0), and of InsertInTx with a forced aggregate id
\* (keys > 0), with operands in vals.
Producer(maxRows, keys, vals) ==
    \E p \in Slots :
        \/ \E x \in vals, y \in vals : AddBegin(p, x, y, maxRows)
        \/ \E x \in vals, y \in vals : AddBeginErr(p, x, y)
        \/ \E key \in keys : AddInsert(p, key)
        \/ AddInsertErr(p)
        \/ AddCommit(p)
        \/ AddCommitErr(p)

RelayStep(r) ==
    \/ ProcessBatch(r)
    \/ SkipExhausted(r)
    \/ PublishOK(r)
    \/ PublishFail(r, OneError)
    \/ PublishFailMarkErr(r)
    \/ MarkPublishedOK(r)
    \/ MarkPublishedErr(r)

\* Producer and two relay instances (two adder replicas) on one outbox table.
NextRelay ==
    \/ Producer(MaxEvents, {0}, {1})
    \/ \E r \in {1, 2} : RelayStep(r)

SpecRelay == Init /\ [][NextRelay]_vars

ConsumerStep ==
    \/ FetchMessage
    \/ DecodeErr
    \/ TxBegin
    \/ TxBeginErr
    \/ CheckAndMark
    \/ CheckDuplicate
    \/ CheckErr
    \/ HandleSumCalculated
    \/ HandleUnknown
    \/ HandleErr
    \/ TxCommit
    \/ TxCommitErr
    \/ CommitMessages
    \/ CommitMessagesErr
    \/ ConsumerRestart

(***************************************************************************)
(* The consumer alone, on any topic content: duplicates of events, an      *)
(* event of an unknown type, an event whose payload does not decode, and   *)
(* a message that is no envelope.                                          *)
(***************************************************************************)
SumMessage(i) ==
    [ id |-> i, agg |-> <<"uuid", i>>, type |-> "sum.calculated", valid |-> TRUE,
      payloadOk |-> TRUE, result |-> i, created |-> 1, published |-> 1 ]

UnknownTypeMessage ==
    [ id |-> UnknownTypeId, agg |-> <<"uuid", UnknownTypeId>>, type |-> "other", valid |-> TRUE,
      payloadOk |-> TRUE, result |-> 0, created |-> 1, published |-> 1 ]

BadPayloadMessage ==
    [ id |-> BadPayloadId, agg |-> <<"uuid", BadPayloadId>>, type |-> "sum.calculated", valid |-> TRUE,
      payloadOk |-> FALSE, result |-> 0, created |-> 1, published |-> 1 ]

PoisonMessage ==
    [ id |-> 0, agg |-> <<"uuid", 0>>, type |-> "", valid |-> FALSE,
      payloadOk |-> FALSE, result |-> 0, created |-> 0, published |-> 0 ]

Messages ==
    {SumMessage(i) : i \in 1 .. MaxEvents} \cup {UnknownTypeMessage, BadPayloadMessage, PoisonMessage}

Topics == UNION {[1 .. n -> Messages] : n \in 0 .. MaxTopic}

InitConsumer ==
    /\ now = 1
    /\ rows = <<>>
    /\ call = [p \in Slots |-> IdleCall]
    /\ relay = [r \in {1, 2} |-> IdleRelay]
    /\ log \in Topics
    /\ cons = IdleConsumer
    /\ committed = 0
    /\ dedup = {}
    /\ total = 0
    /\ applied = [i \in EventIds |-> 0]
    /\ group = [c \in Instances |-> IdleInstance]

SpecConsumer == InitConsumer /\ [][ConsumerStep]_vars

(***************************************************************************)
(* Two consumer instances, each reading the whole topic of sum.calculated  *)
(* events (with duplicates), on one consumer database.                     *)
(***************************************************************************)
GroupTopics == UNION {[1 .. n -> {SumMessage(i) : i \in 1 .. MaxEvents}] : n \in 1 .. MaxTopic}

InitGroup ==
    /\ now = 1
    /\ rows = <<>>
    /\ call = [p \in Slots |-> IdleCall]
    /\ relay = [r \in {1, 2} |-> IdleRelay]
    /\ log \in GroupTopics
    /\ cons = IdleConsumer
    /\ committed = 0
    /\ dedup = {}
    /\ total = 0
    /\ applied = [i \in EventIds |-> 0]
    /\ group = [c \in Instances |-> IdleInstance]

NextGroup ==
    \E c \in Instances :
        \/ GroupFetch(c)
        \/ GroupBegin(c)
        \/ GroupCheckAndMark(c)
        \/ GroupCheckDuplicate(c)
        \/ GroupAddToTotal(c)
        \/ GroupCommit(c)
        \/ GroupError(c)
        \/ GroupCommitMessages(c)

SpecGroup == InitGroup /\ [][NextGroup]_vars

(***************************************************************************)
(* TotalizerService.Add over a Storage: Load, then Save of the sum.  Load  *)
(* and Save each take the storage's mutex for themselves only, so calls of *)
(* Add by different goroutines interleave between the two.  "total" is the *)
(* stored value; every goroutine in Instances makes one call.              *)
(***************************************************************************)
\* NewFileStorage writes this into a file that does not exist yet.
InitialTotal == 10

IdleAdd == [pc |-> "idle", v |-> 0, current |-> 0]

\* current, err := t.storage.Load() succeeds.
TotalizerLoad(c, v) ==
    /\ group[c].pc = "idle"
    /\ group' = [group EXCEPT ![c] = [pc |-> "loaded", v |-> v, current |-> total]]
    /\ UNCHANGED <<now, rows, call, relay, log, cons, committed, dedup, total, applied>>

\* Load fails: Add returns "cannot load file storage".
TotalizerLoadErr(c, v) ==
    /\ group[c].pc = "idle"
    /\ group' = [group EXCEPT ![c] = [pc |-> "err", v |-> v, current |-> 0]]
    /\ UNCHANGED <<now, rows, call, relay, log, cons, committed, dedup, total, applied>>

\* t.storage.Save(current + total) succeeds: Add returns nil.
TotalizerSave(c) ==
    /\ group[c].pc = "loaded"
    /\ total' = group[c].current + group[c].v
    /\ group' = [group EXCEPT ![c].pc = "ok"]
    /\ UNCHANGED <<now, rows, call, relay, log, cons, committed, dedup, applied>>

\* Save fails: Add returns the error.
TotalizerSaveErr(c) ==
    /\ group[c].pc = "loaded"
    /\ group' = [group EXCEPT ![c].pc = "err"]
    /\ UNCHANGED <<now, rows, call, relay, log, cons, committed, dedup, total, applied>>

InitTotalizer ==
    /\ now = 1
    /\ rows = <<>>
    /\ call = [p \in Slots |-> IdleCall]
    /\ relay = [r \in {1, 2} |-> IdleRelay]
    /\ log = <<>>
    /\ cons = IdleConsumer
    /\ committed = 0
    /\ dedup = {}
    /\ total = InitialTotal
    /\ applied = [i \in EventIds |-> 0]
    /\ group = [c \in Instances |-> IdleAdd]

NextTotalizer ==
    \E c \in Instances :
        \/ \E v \in Vals : TotalizerLoad(c, v)
        \/ \E v \in Vals : TotalizerLoadErr(c, v)
        \/ TotalizerSave(c)
        \/ TotalizerSaveErr(c)

SpecTotalizer == InitTotalizer /\ [][NextTotalizer]_vars

(***************************************************************************)
(* The gRPC endpoint SumNumbers: X and Y are int32, the service adds them  *)
(* as int (64 bits, so the addition itself cannot overflow), and the       *)
(* response carries int32(sum).                                            *)
(***************************************************************************)
Int32Range == -(2 ^ (IntBits - 1)) .. (2 ^ (IntBits - 1)) - 1

\* The conversion int32(v): the low bits of v, read as two's complement.
Int32(v) == ((v + 2 ^ (IntBits - 1)) % (2 ^ IntBits)) - 2 ^ (IntBits - 1)

\* SumNumbersResponse.Sum of the call in slot p, once Add has returned nil.
ResponseSum(p) == Int32(call[p].ret)

NextSum == Producer(1, {0}, Int32Range)

SpecSum == Init /\ [][NextSum]_vars

(***************************************************************************)
(* Graceful shutdown.  The adder's main cancels the root context and calls *)
(* relay.Stop(); the totalizer's main cancels the root context and calls   *)
(* consumer.Stop().  Every database call, the publisher and the reader are *)
(* given that context: once it is cancelled, a call that starts fails      *)
(* with the context's error (a decode or a dispatch that touches nothing   *)
(* still runs; the offset commit may still get through).  Errors that      *)
(* change nothing else are seen in "logged".  "waiting" and "atSignal" are *)
(* history: the rows that were waiting in the batch behind the row being   *)
(* handled, and the message that was being processed, at the shutdown.     *)
(***************************************************************************)
RelayAtStart ==
    [ batch       |-> <<>>,
      sent        |-> FALSE,
      stopCh      |-> "open",
      ctx         |-> "live",
      publishLoop |-> "idle",
      cleanupLoop |-> "idle",
      logged      |-> FALSE,
      waiting     |-> {} ]

ConsumerAtStart ==
    [ pc |-> "idle", pos |-> 1, cur |-> 0, marked |-> FALSE, delta |-> 0, inc |-> NoMetrics,
      stopCh   |-> "open",
      ctx      |-> "live",
      loop     |-> "idle",
      logged   |-> FALSE,
      atSignal |-> 0 ]

\* adder main: cancel(); app.relay.Stop()
AdderShutdown ==
    /\ relay[1].ctx = "live"
    /\ relay[1].stopCh = "open"
    /\ relay' = [relay EXCEPT ![1].ctx = "done", ![1].stopCh = "closed",
                              ![1].waiting = {relay[1].batch[k].id : k \in 2 .. Len(relay[1].batch)}]
    /\ UNCHANGED <<now, rows, call, log, cons, committed, dedup, total, applied, group>>

\* The publish loop with the context: a tick and the batch it starts.
PublishLoopRun(r) ==
    /\ relay[r].publishLoop = "running"
    /\ \/ relay[r].ctx = "live" /\ ProcessBatch(r)
       \/ SkipExhausted(r)
       \/ relay[r].ctx = "live" /\ PublishOK(r)
       \/ relay[r].ctx = "live" /\ PublishFail(r, OneError)
       \/ PublishFailMarkErr(r)
       \/ relay[r].ctx = "live" /\ MarkPublishedOK(r)
       \/ MarkPublishedErr(r)

\* Mutant of ProcessBatchErr: the publish loop returns when processBatch fails.
ProcessBatchErrReturns(r) ==
    /\ relay[r].publishLoop = "running"
    /\ relay[r].batch = <<>>
    /\ relay' = [relay EXCEPT ![r].logged = TRUE, ![r].publishLoop = "exited"]
    /\ UNCHANGED <<now, rows, call, log, cons, committed, dedup, total, applied, group>>

\* FetchUnpublished fails: processBatch returns the error, the loop logs it.
ProcessBatchErr(r) ==
    /\ relay[r].publishLoop = "running"
    /\ relay[r].batch = <<>>
    /\ relay' = [relay EXCEPT ![r].logged = TRUE]
    /\ UNCHANGED <<now, rows, call, log, cons, committed, dedup, total, applied, group>>

\* CleanupOldEvents fails: the cleanup loop logs the error.
CleanupLoopErr(r) ==
    /\ relay[r].cleanupLoop = "running"
    /\ relay' = [relay EXCEPT ![r].logged = TRUE]
    /\ UNCHANGED <<now, rows, call, log, cons, committed, dedup, total, applied, group>>

ConsumerSignalled == cons.stopCh = "closed" \/ cons.ctx = "done"

\* Consumer.Start: go c.consumeLoop(ctx)
ConsumerStart ==
    /\ cons.loop = "idle"
    /\ cons' = [cons EXCEPT !.loop = "running"]
    /\ UNCHANGED <<now, rows, call, relay, log, committed, dedup, total, applied, group>>

\* totalizer main: cancel(); app.consumer.Stop()
TotalizerShutdown ==
    /\ cons.ctx = "live"
    /\ cons.stopCh = "open"
    /\ cons' = [cons EXCEPT !.ctx = "done", !.stopCh = "closed",
                            !.atSignal = IF cons.pc = "idle" THEN 0 ELSE cons.cur]
    /\ UNCHANGED <<now, rows, call, relay, log, committed, dedup, total, applied, group>>

\* consumeLoop: the default case of the select, taken when no signal is
\* ready, and what follows it.  The topic holds what the relay published:
\* every message decodes and is a sum.calculated.
ConsumerLoopRun ==
    /\ cons.loop = "running"
    /\ \/ ~ConsumerSignalled /\ FetchMessage
       \/ cons.ctx = "live" /\ TxBegin
       \/ TxBeginErr
       \/ cons.ctx = "live" /\ CheckAndMark
       \/ cons.ctx = "live" /\ CheckDuplicate
       \/ CheckErr
       \/ cons.ctx = "live" /\ HandleSumCalculated
       \/ HandleErr
       \/ cons.ctx = "live" /\ TxCommit
       \/ TxCommitErr
       \/ CommitMessages
       \/ CommitMessagesErr

\* FetchMessage fails with an error that is not context.Canceled: logged,
\* continue.
ConsumerFetchErr ==
    /\ cons.loop = "running"
    /\ cons.pc = "idle"
    /\ ~ConsumerSignalled
    /\ cons' = [cons EXCEPT !.logged = TRUE]
    /\ UNCHANGED <<now, rows, call, relay, log, committed, dedup, total, applied, group>>

\* case <-ctx.Done() / case <-c.stopCh at the top of the loop, or FetchMessage
\* returning context.Canceled: return.
ConsumerLoopExit ==
    /\ cons.loop = "running"
    /\ cons.pc = "idle"
    /\ ConsumerSignalled
    /\ cons' = [cons EXCEPT !.loop = "exited"]
    /\ UNCHANGED <<now, rows, call, relay, log, committed, dedup, total, applied, group>>

InitShutdown ==
    /\ now = 1
    /\ rows = <<>>
    /\ call = [p \in Slots |-> IdleCall]
    /\ relay = [r \in {1, 2} |-> RelayAtStart]
    /\ log = <<>>
    /\ cons = ConsumerAtStart
    /\ committed = 0
    /\ dedup = {}
    /\ total = 0
    /\ applied = [i \in EventIds |-> 0]
    /\ group = [c \in Instances |-> IdleInstance]

NextShutdown ==
    \/ Producer(MaxEvents, {0}, {1})
    \/ Start(1)
    \/ AdderShutdown
    \/ PublishLoopRun(1)
    \/ ProcessBatchErr(1)
    \/ PublishLoopExit(1)
    \/ CleanupLoopErr(1)
    \/ CleanupLoopExit(1)
    \/ ConsumerStart
    \/ TotalizerShutdown
    \/ ConsumerLoopRun
    \/ ConsumerFetchErr
    \/ ConsumerLoopExit

SpecShutdown == InitShutdown /\ [][NextShutdown]_vars

(***************************************************************************)
(* Producer and one relay whose publisher fails with errors of any text.   *)
(***************************************************************************)
NextErr ==
    \/ Producer(MaxEvents, {0}, {1})
    \/ ProcessBatch(1)
    \/ SkipExhausted(1)
    \/ PublishOK(1)
    \/ PublishFail(1, ErrorTexts)
    \/ PublishFailMarkErr(1)
    \/ MarkPublishedOK(1)
    \/ MarkPublishedErr(1)

SpecErr == Init /\ [][NextErr]_vars

(***************************************************************************)
(* The pipeline: producer, one relay, topic, consumer.                     *)
(***************************************************************************)
\* The topic holds only what the relay wrote: every envelope decodes and is
\* of type sum.calculated.
Next ==
    \/ Producer(MaxEvents, {0}, {1})
    \/ RelayStep(1)
    \/ RelayCrash(1)
    \/ FetchMessage
    \/ TxBegin
    \/ TxBeginErr
    \/ CheckAndMark
    \/ CheckDuplicate
    \/ CheckErr
    \/ HandleSumCalculated
    \/ HandleErr
    \/ TxCommit
    \/ TxCommitErr
    \/ CommitMessages
    \/ CommitMessagesErr
    \/ ConsumerRestart

Spec == Init /\ [][Next]_vars

(***************************************************************************)
(* Producer and one relay, with the clock running and callers that force   *)
(* the aggregate id.                                                       *)
(***************************************************************************)
NextOrder ==
    \/ Producer(MaxEvents, 0 .. MaxKeys, {1})
    \/ RelayStep(1)
    \/ Tick(MaxTime)

SpecOrder == Init /\ [][NextOrder]_vars

(***************************************************************************)
(* Producer and one relay, with requests of different operands.            *)
(***************************************************************************)
NextAdd ==
    \/ Producer(MaxEvents, {0}, Vals)
    \/ RelayStep(1)

SpecAdd == Init /\ [][NextAdd]_vars

(***************************************************************************)
(* Producer and one relay with its cleanup loop, the clock running long     *)
(* enough for a published row to outlive the retention period.             *)
(***************************************************************************)
NextCleanup ==
    \/ Producer(MaxEvents, {0}, {1})
    \/ RelayStep(1)
    \/ Cleanup
    \/ Tick(MaxTime + Retention)

SpecCleanup == Init /\ [][NextCleanup]_vars

(***************************************************************************)
(* Producer and one relay that is started, stopped and cancelled.  A batch *)
(* under way goes on (the calls return); a select whose signal case is     *)
(* ready again and again takes it in the end.                              *)
(***************************************************************************)
InitLife ==
    /\ now = 1
    /\ rows = <<>>
    /\ call = [p \in Slots |-> IdleCall]
    /\ relay = [r \in {1, 2} |-> NewRelay]
    /\ log = <<>>
    /\ cons = IdleConsumer
    /\ committed = 0
    /\ dedup = {}
    /\ total = 0
    /\ applied = [i \in EventIds |-> 0]
    /\ group = [c \in Instances |-> IdleInstance]

NextLife ==
    \/ Producer(MaxEvents, {0}, {1})
    \/ Start(1)
    \/ Stop(1)
    \/ Cancel(1)
    \/ PublishLoopStep(1)
    \/ PublishLoopExit(1)
    \/ CleanupLoopStep(1)
    \/ CleanupLoopExit(1)
    \/ Tick(MaxTime + Retention)

SpecLife ==
    /\ InitLife
    /\ [][NextLife]_vars
    /\ WF_vars(PublishLoopStep(1))
    /\ SF_vars(PublishLoopExit(1))
    /\ WF_vars(CleanupLoopExit(1))

(***************************************************************************)
(* Producer and one relay, with callers of InsertInTx that pass an event    *)
(* whose ID is already in use.                                             *)
(***************************************************************************)
NextInsert ==
    \/ Producer(MaxEvents, {0}, {1})
    \/ \E p \in Slots, j \in 1 .. MaxEvents : InsertSameId(p, j)
    \/ RelayStep(1)

SpecInsert == Init /\ [][NextInsert]_vars

(***************************************************************************)
(* Producer and one relay whose publish loop keeps running (the ticker),   *)
(* with a publisher that does not refuse an event for ever.                *)
(***************************************************************************)
PublishOKOf(r, i) == PublishOK(r) /\ Current(r).id = i

NextFair ==
    \/ Producer(MaxEvents + 1, {0}, {1})
    \/ RelayStep(1)

SpecFair ==
    /\ Init
    /\ [][NextFair]_vars
    /\ WF_vars(RelayStep(1))
    /\ \A i \in 1 .. MaxEvents + 1 : SF_vars(PublishOKOf(1, i))

\* The same with the clock running, so that rows differ in created_at.
NextClock ==
    \/ NextFair
    \/ Tick(MaxTime)

SpecFairClock ==
    /\ Init
    /\ [][NextClock]_vars
    /\ WF_vars(RelayStep(1))
    /\ \A i \in 1 .. MaxEvents + 1 : SF_vars(PublishOKOf(1, i))

(***************************************************************************)
(* Claims.                                                                 *)
(***************************************************************************)
\* The result carried by the messages of event i (0 when the topic has none).
ResultOf(i) ==
    IF InLog(i) THEN log[CHOOSE k \in 1 .. Len(log) : log[k].id = i].result ELSE 0

\* C1: however often the messages of an event are observed by the consumer
\* (duplicates in the topic, redelivery after a restart), T is incremented by
\* the event's result at most once, T is the sum of the results of the events
\* applied, and once processMessage has returned nil for a message of a
\* sum.calculated event, T has been incremented for that event exactly once.
C1_ExactlyOnce ==
    /\ \A i \in EventIds : applied[i] <= 1
    /\ total = SumOver(EventIds, [i \in EventIds |-> applied[i] * ResultOf(i)])
    /\ (cons.pc = "commit" /\ Decodes(Msg) /\ Msg.type = "sum.calculated")
          => applied[Msg.id] = 1

\* C1 witness: a second message of an event whose first message was applied
\* and committed has been processed, and T holds the result once.
C1_Witness ==
    /\ cons.pc = "commit"
    /\ committed >= 1
    /\ committed < cons.cur
    /\ Decodes(Msg)
    /\ Msg.type = "sum.calculated"
    /\ Decodes(log[committed])
    /\ log[committed].id = Msg.id
    /\ applied[Msg.id] = 1
    /\ total = Msg.result

\* C2 (as claimed): the committed offset never moves past a message that was
\* neither applied, nor confirmed as a duplicate, nor skipped as poison: every
\* message below the committed offset is no envelope or has its dedup row.
C2_NoCommitPastUnprocessed ==
    \A o \in 1 .. committed : ~Decodes(log[o]) \/ log[o].id \in dedup

\* No request is in flight, the relay has no batch and no unpublished row to
\* fetch, the consumer has read the whole topic and committed its last offset.
Quiescent ==
    /\ \A p \in Slots : CanStart(p)
    /\ relay[1].batch = <<>>
    /\ \A i \in RowIds : Visible(i) => rows[i].published # NULL
    /\ cons.pc = "idle"
    /\ cons.pos > Len(log)
    /\ committed = Len(log)

\* The sum of x + y over the requests whose producer transaction committed.
CommittedSum ==
    SumOver({i \in RowIds : Visible(i)},
            [i \in RowIds |-> rows[i].payload.x + rows[i].payload.y])

\* C3 (as claimed): after quiescence T equals the sum of x + y over all
\* requests whose producer transaction committed.
C3_QuiescentTotal == Quiescent => total = CommittedSum

\* C4: a step that commits the offset of a message whose envelope decodes is
\* taken only when the dedup row of its event is committed in the consumer
\* database.
C4_DbCommitBeforeOffsetCommit ==
    [][committed' # committed =>
          (~Decodes(log[committed']) \/ log[committed'].id \in dedup)]_vars

\* C4 witness: the offset of a decodable message is committed and its dedup
\* row is there.
C4_Witness ==
    /\ committed >= 1
    /\ Decodes(log[committed])
    /\ log[committed].id \in dedup
    /\ cons.pc = "idle"
    /\ cons.cur = committed

Quarantined(i) ==
    /\ i \in RowIds
    /\ Visible(i)
    /\ rows[i].published = NULL
    /\ rows[i].retry >= MaxRetries

\* At least batch_size quarantined rows are not newer than row i: they can
\* fill every batch that FetchUnpublished returns.
BehindQuarantined(i) ==
    /\ i \in RowIds
    /\ Cardinality({j \in RowIds \ {i} : Quarantined(j) /\ rows[j].created <= rows[i].created})
           >= BatchSize

FirstInLog(i) == CHOOSE k \in 1 .. Len(log) : log[k].id = i /\ \A l \in 1 .. k - 1 : log[l].id # i

\* C6 (as claimed): of two events in the log with equal aggregate_id, the one
\* with the smaller created_at was written to the log first.
C6_PerAggregateOrder ==
    \A i, j \in RowIds :
        (InLog(i) /\ InLog(j) /\ rows[i].agg = rows[j].agg /\ rows[i].created < rows[j].created)
            => FirstInLog(i) < FirstInLog(j)

\* C11 (as claimed, in the case it names): a committed, unpublished row that
\* is not quarantined is eventually written to the log (or uses up its own
\* retry budget), also when batch_size or more quarantined rows are older
\* than it.
C11_QuarantinedRowsDoNotBlock ==
    \A i \in 1 .. MaxEvents + 1 :
        (/\ i \in RowIds
         /\ Visible(i)
         /\ rows[i].published = NULL
         /\ rows[i].retry < MaxRetries
         /\ Cardinality({j \in RowIds : Quarantined(j) /\ rows[j].created < rows[i].created})
                >= BatchSize)
            ~> (InLog(i) \/ Quarantined(i))

\* C7 (as claimed): a row fetched by one relay instance is not handed to the
\* other before the first has finished handling it: no row is in the batches
\* of both instances at once.
C7_NoRowInTwoBatches ==
    \A k \in 1 .. Len(relay[1].batch), l \in 1 .. Len(relay[2].batch) :
        relay[1].batch[k].id # relay[2].batch[l].id

\* C8: every message in the log carries the id of an outbox row whose
\* transaction is committed (the relay's write leaves the table unchanged,
\* so the row was committed before the write), and a row whose transaction
\* is open or did not commit has no message in the log, no dedup row and no
\* share in T.
C8_OnlyCommittedRowsReachLog ==
    /\ \A k \in 1 .. Len(log) : log[k].id \in RowIds /\ rows[log[k].id].state = "committed"
    /\ \A i \in RowIds :
           rows[i].state # "committed" => ~InLog(i) /\ i \notin dedup /\ applied[i] = 0
    /\ total = SumOver({i \in RowIds : rows[i].state = "committed"},
                       [i \in RowIds |-> applied[i] * rows[i].payload.result])

\* C8 witness: a request whose insert succeeded and whose commit failed, next
\* to a committed request whose event went through the log into T.
C8_Witness ==
    /\ \E i \in RowIds : rows[i].state = "aborted"
    /\ \E i \in RowIds : rows[i].state = "committed" /\ InLog(i) /\ applied[i] = 1
    /\ total > 0

\* C9: when Add has returned a sum without error, the sum is x + y and the
\* one row of that call is committed with payload {x, y, x + y}; when Add has
\* returned an error, the call left no row, or its row is invisible to the
\* relay: in no batch, not in the log, never marked.
C9_AddAtomic ==
    \A p \in Slots :
        /\ call[p].pc = "ok" =>
               /\ call[p].ret = call[p].x + call[p].y
               /\ call[p].row \in RowIds
               /\ rows[call[p].row].state = "committed"
               /\ rows[call[p].row].payload =
                      [x |-> call[p].x, y |-> call[p].y, result |-> call[p].x + call[p].y]
        /\ (call[p].pc = "err" /\ call[p].row # 0) =>
               /\ call[p].ret = 0
               /\ ~Visible(call[p].row)
               /\ \A r \in DOMAIN relay : \A k \in 1 .. Len(relay[r].batch) :
                      relay[r].batch[k].id # call[p].row
               /\ ~InLog(call[p].row)
               /\ rows[call[p].row].published = NULL
               /\ rows[call[p].row].retry = 0

\* C9 witness: Add returned an error after its insert had succeeded, while
\* the relay is at work on the committed row of an earlier call.
C9_Witness ==
    \E p \in Slots :
        /\ call[p].pc = "err"
        /\ call[p].row # 0
        /\ call[p].x # call[p].y
        /\ \E i \in RowIds : Visible(i) /\ InLog(i) /\ rows[i].payload.result > rows[i].payload.x + 1
        /\ \E r \in DOMAIN relay : relay[r].batch # <<>>

\* C10 (as claimed): once the retry_count of an unpublished row has reached
\* max_retries, no step publishes the row, deletes it or sets its
\* published_at.
C10_Quarantine ==
    [][\A i \in RowIds :
          (Visible(i) /\ rows[i].published = NULL /\ rows[i].retry >= MaxRetries)
             => /\ rows'[i].published = NULL
                /\ rows'[i].state = rows[i].state
                /\ ~(Len(log') > Len(log) /\ log'[Len(log')].id = i)]_vars

\* C12: a step after which a message of a row is in the log while
\* MarkPublished took no effect (it failed, or the relay died before it)
\* leaves the row committed, unpublished and with its retry_count, so that
\* the row is fetched again; every message of a row carries the same
\* event_id, aggregate and result; and T holds the result of every event at
\* most once, however many messages of it the consumer has processed.
C12_RepublishAbsorbed ==
    [][/\ (relay[1].sent /\ ~relay'[1].sent /\ rows'[Current(1).id].published = NULL)
           => /\ rows'[Current(1).id] = rows[Current(1).id]
              /\ Visible(Current(1).id)
              /\ rows[Current(1).id].retry < MaxRetries
              /\ InLog(Current(1).id)
       /\ \A k, l \in 1 .. Len(log') :
              log'[k].id = log'[l].id
                 => [log'[k] EXCEPT !.published = 0] = [log'[l] EXCEPT !.published = 0]
       /\ \A i \in RowIds : applied'[i] <= 1
       /\ total' = SumOver({i \in 1 .. Len(rows') : applied'[i] = 1},
                           [i \in 1 .. Len(rows') |-> rows'[i].payload.result])]_vars

\* C12 witness: the topic holds two messages of one event, the consumer has
\* applied the first and has just skipped the second as a duplicate.
C12_Witness ==
    /\ cons.pc = "commit"
    /\ \E k \in 1 .. Len(log) :
           /\ k < cons.cur
           /\ log[k].id = Msg.id
           /\ applied[Msg.id] = 1
           /\ total = Msg.result
           /\ rows[Msg.id].published = NULL

\* C13: when the consumer dies after the transaction of a message has
\* committed and before its offset is committed, the new reader starts at or
\* before that message, whose dedup row is there; while a message whose
\* dedup row is there is processed, T, the dedup table and the applied
\* events do not change, the dedup check leads to the offset commit (or to
\* an error), and the offset committed is that of the message.
C13_RefetchedAfterCrashIsDuplicate ==
    [][/\ (cons.pc = "commit" /\ Decodes(Msg) /\ cons'.cur = 0)
           => /\ cons'.pos <= cons.cur
              /\ Msg.id \in dedup'
              /\ total' = total
       /\ (cons.pc \in {"fetched", "begun"} /\ Decodes(Msg) /\ Msg.id \in dedup)
           => /\ total' = total
              /\ dedup' = dedup
              /\ applied' = applied
              /\ cons'.pc \in {"begun", "commit", "idle"}
              /\ (cons.pc = "begun" /\ cons'.pc = "commit") => cons'.inc.duplicate = 1
       /\ (cons.pc = "commit" /\ committed' # committed) => committed' = cons.cur]_vars

\* C13 witness: the only message of an event was skipped as a duplicate (so
\* it had been applied by an earlier incarnation that died before the offset
\* commit), T holds its result once and its offset is now committed.
C13_Witness ==
    /\ cons.pc = "idle"
    /\ cons.cur >= 1
    /\ committed = cons.cur
    /\ cons.inc.duplicate = 1
    /\ \A k \in 1 .. Len(log) : k # cons.cur => ~Decodes(log[k]) \/ log[k].id # Msg.id
    /\ applied[Msg.id] = 1
    /\ total = Msg.result

\* Every event of the topic has its dedup row.
WarmDedup == \A k \in 1 .. Len(log) : Decodes(log[k]) => log[k].id \in dedup

\* C14: the dedup check of a message whose event_id is in the dedup table
\* never marks it; when it reports the duplicate, T and the dedup table are
\* unchanged and the only metric incremented for the message is duplicate,
\* once; the offset then committed is the message's; and while every event
\* of the topic has its dedup row, no step changes T.
C14_DuplicateNotApplied ==
    [][/\ (cons.pc = "begun" /\ Msg.id \in dedup)
           => /\ cons'.pc # "marked"
              /\ cons'.pc = "commit"
                    => /\ total' = total
                       /\ dedup' = dedup
                       /\ cons'.inc = [NoMetrics EXCEPT !.duplicate = 1]
       /\ (cons.pc = "commit" /\ cons.inc.duplicate = 1 /\ committed' # committed)
           => committed' = cons.cur
       /\ WarmDedup => total' = total /\ dedup' = dedup]_vars

\* C14 witness: a reader has come to the end of a topic of at least two
\* different events whose dedup rows are all there; the last message was
\* counted as a duplicate and committed, and T is the sum of the results.
C14_Witness ==
    /\ Len(log) >= 2
    /\ \A k \in 1 .. Len(log) : log[k].type = "sum.calculated" /\ log[k].payloadOk
    /\ \A k, l \in 1 .. Len(log) : k # l => log[k].id # log[l].id
    /\ WarmDedup
    /\ cons.pc = "idle"
    /\ cons.cur = Len(log)
    /\ committed = Len(log)
    /\ cons.inc.duplicate = 1
    /\ total = SumOver(1 .. Len(log), [k \in 1 .. Len(log) |-> log[k].result])

\* C15: for a message that is no envelope the consumer opens no
\* transaction and changes neither T nor the dedup table; processMessage
\* leads to the offset commit, and the offset committed is the message's.
C15_PoisonSkipped ==
    [][(cons.pc \in {"fetched", "commit"} /\ ~Decodes(Msg))
          => /\ total' = total
             /\ dedup' = dedup
             /\ applied' = applied
             /\ cons'.pc \notin {"begun", "marked", "handled"}
             /\ ~cons'.marked
             /\ (cons.pc = "fetched" /\ cons'.cur = cons.cur) => cons'.pc = "commit"
             /\ committed' # committed => committed' = cons.cur]_vars

\* C15 witness: the offset of a poison message is committed, after it an
\* event was applied.
C15_Witness ==
    /\ Len(log) >= 2
    /\ ~Decodes(log[1])
    /\ committed = 2
    /\ cons.cur = 2
    /\ Decodes(log[2])
    /\ applied[log[2].id] = 1
    /\ total = log[2].result
    /\ dedup = {log[2].id}

\* C16 (as claimed): InsertInTx of an event whose id is the id of an event
\* of a committed row fails and adds no row: no row of the table carries the
\* event id of another, committed row.
C16_DuplicateIdRejected ==
    \A i, j \in RowIds :
        (i # j /\ rows[j].state = "committed" /\ rows[i].state \in {"open", "committed"})
            => rows[i].eid # rows[j].eid

\* C17 (as claimed): the event that FetchUnpublished returns for a row, and
\* the message written to the log for it, carry the id of the event that
\* was inserted (for an event of NewSumCalculatedEvent also its
\* aggregate_id), and its aggregate_id, event_type, payload and created_at.
C17_IdentityRoundTrip ==
    /\ \A k \in 1 .. Len(relay[1].batch) :
           RowId(relay[1].batch[k].id) = rows[relay[1].batch[k].id].eid
    /\ \A k \in 1 .. Len(log) :
           /\ RowId(log[k].id) = rows[log[k].id].eid
           /\ RowId(log[k].id) = log[k].agg
           /\ log[k].agg = rows[log[k].id].agg
           /\ log[k].type = rows[log[k].id].type
           /\ log[k].result = rows[log[k].id].payload.result
           /\ log[k].created = rows[log[k].id].created

\* C18 (as claimed): the published_at that MarkPublished stores in a row is
\* the published_at of a message of that row in the log.
C18_SamePublishedAt ==
    \A i \in RowIds :
        rows[i].published # NULL
            => \E k \in 1 .. Len(log) : log[k].id = i /\ log[k].published = rows[i].published

\* C19: a step that deletes a row deletes exactly the committed rows whose
\* published_at is not null and older than now - retention, and leaves every
\* other row as it is; no step removes a row from the table otherwise.
C19_CleanupExact ==
    [][/\ Len(rows') >= Len(rows)
       /\ (\E i \in RowIds : rows'[i].state = "deleted" /\ rows[i].state # "deleted")
           => \A i \in RowIds :
                  IF /\ rows[i].state = "committed"
                     /\ rows[i].published # NULL
                     /\ rows[i].published < now - Retention
                  THEN rows'[i] = [rows[i] EXCEPT !.state = "deleted"]
                  ELSE rows'[i] = rows[i]]_vars

\* C19 witness: a cleanup has deleted a row, and a committed row that is as
\* old and has used up its retry budget without being published is still
\* there.
C19_Witness ==
    \E i, j \in RowIds :
        /\ rows[i].state = "deleted"
        /\ rows[j].state = "committed"
        /\ rows[j].published = NULL
        /\ rows[j].retry >= MaxRetries
        /\ rows[j].created <= rows[i].created

\* C20: once the relay is started and Stop has been called or the context is
\* cancelled, both loops eventually exit; a loop that has exited stays
\* exited, the publish loop starts no batch and the cleanup loop deletes no
\* row after that.
C20_LoopsExit ==
    /\ (relay[1].publishLoop # "idle" /\ Signalled(1))
           ~> (relay[1].publishLoop = "exited" /\ relay[1].cleanupLoop = "exited")
    /\ [][/\ (relay[1].publishLoop = "exited")
                 => (relay'[1].publishLoop = "exited" /\ relay'[1].batch = <<>>)
          /\ (relay[1].cleanupLoop = "exited")
                 => /\ relay'[1].cleanupLoop = "exited"
                    /\ \A i \in RowIds :
                           (rows'[i].state = "deleted") => (rows[i].state = "deleted")]_vars

\* C20 witness: both loops have exited after Stop, having published a row and
\* cleaned one up, while a committed row is still unpublished.
C20_Witness ==
    /\ relay[1].stopCh = "closed"
    /\ relay[1].ctx = "live"
    /\ relay[1].publishLoop = "exited"
    /\ relay[1].cleanupLoop = "exited"
    /\ \E i, j \in RowIds :
           /\ rows[i].state = "deleted"
           /\ rows[j].state = "committed"
           /\ rows[j].published = NULL

\* C21: while a message is being processed and its transaction is not yet
\* committed, the consumer database does not change; a step that ends the
\* processing with an error (transaction begin, dedup check, dispatch or
\* commit failed) changes neither the dedup table nor T and leaves nothing
\* of the transaction behind.
C21_ErrorLeavesDatabase ==
    [][/\ (cons.pc \in {"fetched", "begun", "marked"})
           => (dedup' = dedup /\ total' = total)
       /\ (cons.pc \in {"fetched", "begun", "marked", "handled"}
              /\ cons'.inc["error"] = cons.inc["error"] + 1)
           => /\ dedup' = dedup
              /\ total' = total
              /\ ~cons'.marked
              /\ cons'.delta = 0]_vars

\* C21 witness: the message whose payload does not decode has ended with an
\* error after an earlier event was applied; its id is not in the dedup
\* table and T is the earlier event's result.
C21_Witness ==
    /\ cons.pc = "idle"
    /\ cons.cur > 1
    /\ Msg = BadPayloadMessage
    /\ cons.inc["error"] = 1
    /\ BadPayloadId \notin dedup
    /\ dedup # {}
    /\ total > 0

\* The sum.calculated events that have a row in processed_events.
MarkedSumEvents ==
    {i \in dedup : \E k \in 1 .. Len(log) :
                       Decodes(log[k]) /\ log[k].id = i /\ log[k].type = "sum.calculated"}

\* C22: in every committed state of the consumer database, T is the sum of
\* payload.result over the sum.calculated events that have a dedup row.
C22_DedupAndIncrementAtomic ==
    total = SumOver(MarkedSumEvents, [i \in EventIds |-> ResultOf(i)])

\* C22 witness: two sum.calculated events and an event of another type have
\* their dedup rows, and T is the sum of the two results.
C22_Witness ==
    /\ UnknownTypeId \in dedup
    /\ Cardinality(MarkedSumEvents) = 2
    /\ total = SumOver(MarkedSumEvents, [i \in EventIds |-> i])
    /\ total > 0

\* C23: two open transactions never both hold a dedup row for the same
\* event_id, no open transaction holds a dedup row for an event_id that is
\* committed, and no event is applied to T more than once.
C23_DedupMutualExclusion ==
    /\ \A c, d \in Instances :
           (c # d /\ group[c].marked /\ group[d].marked) => MsgOf(c).id # MsgOf(d).id
    /\ \A c \in Instances : group[c].marked => MsgOf(c).id \notin dedup
    /\ \A i \in EventIds : applied[i] <= 1

\* C23 witness: both instances began a transaction for the same event when
\* it had no dedup row; both have returned nil, the event was applied once.
C23_Witness ==
    \E c, d \in Instances :
        /\ c # d
        /\ group[c].pc = "commit"
        /\ group[d].pc = "commit"
        /\ MsgOf(c).id = MsgOf(d).id
        /\ group[c].began = 0
        /\ group[d].began = 0
        /\ applied[MsgOf(c).id] = 1
        /\ total = MsgOf(c).result

\* C24: T is the sum of the results of the committed applications, whatever
\* the interleaving of the transactions: no update is lost.
C24_NoLostUpdate ==
    total = SumOver(EventIds, [i \in EventIds |-> applied[i] * ResultOf(i)])

\* C24 witness: both instances began transactions for two different events
\* before either was committed; both have committed, T is increased by the
\* sum of the two results.
C24_Witness ==
    \E c, d \in Instances :
        /\ c # d
        /\ group[c].pc = "commit"
        /\ group[d].pc = "commit"
        /\ MsgOf(c).id # MsgOf(d).id
        /\ group[c].began = group[d].began
        /\ applied[MsgOf(c).id] = 1
        /\ applied[MsgOf(d).id] = 1
        /\ total = group[c].began + MsgOf(c).result + MsgOf(d).result

\* C25: for a message whose envelope decodes and whose event_type is not
\* sum.calculated, the dispatch (unless the process dies) adds nothing to the
\* transaction and does not fail; the commit leaves T as it is and adds the dedup row; processMessage
\* then returns nil, so the offset is committed; and a message of that
\* event_id fetched when the dedup row is there is never marked again.
C25_UnknownTypeRecorded ==
    [][(cons.cur > 0 /\ Decodes(Msg) /\ Msg.type # "sum.calculated")
          => /\ (cons.pc = "marked" /\ cons'.pc # "marked" /\ cons'.cur = cons.cur)
                    => (cons'.pc = "handled" /\ cons'.delta = 0 /\ cons'.marked)
             /\ (cons.pc = "handled" /\ cons'.pc = "commit")
                    => (total' = total /\ dedup' = dedup \cup {Msg.id})
             /\ (cons.pc = "begun" /\ Msg.id \in dedup)
                    => (cons'.pc # "marked" /\ total' = total)
             /\ (cons.pc = "commit" /\ committed' # committed)
                    => committed' = cons.cur]_vars

\* C25 witness: the event of another type is in the topic twice; its first
\* message was recorded, its second was counted as a duplicate and
\* committed, and T is still 0.
C25_Witness ==
    /\ cons.pc = "idle"
    /\ cons.cur = 2
    /\ log[1] = UnknownTypeMessage
    /\ log[2] = UnknownTypeMessage
    /\ cons.inc["duplicate"] = 1
    /\ committed = 2
    /\ UnknownTypeId \in dedup
    /\ total = 0

\* C26 (as claimed): any two messages with equal aggregate_id are written to
\* the same partition.
C26_SameKeySamePartition ==
    \A k, l \in 1 .. Len(log) :
        log[k].agg = log[l].agg => PartitionOf(k) = PartitionOf(l)

\* C27 (as claimed): the retry_count of an outbox row never exceeds
\* max_retries, also with several relay instances.
C27_RetryCountBounded ==
    \A i \in RowIds : rows[i].retry <= MaxRetries

\* Row i is in the batch of relay 1, behind the row being handled.
WaitsInBatch(i) ==
    \E k \in 2 .. Len(relay[1].batch) : relay[1].batch[k].id = i

\* C28: a step that ends the handling of a row of the batch leaves the later
\* rows of the batch in place, also when the publication failed; a failed
\* publication is followed by MarkFailed (retry_count + 1, or no change when
\* MarkFailed fails itself); and every row waiting in the batch comes to be
\* handled in that batch.
C28_FailureDoesNotStopBatch ==
    /\ [][(relay[1].batch # <<>> /\ relay'[1].batch # relay[1].batch)
              => /\ relay'[1].batch = Tail(relay[1].batch)
                 /\ (~relay[1].sent /\ ~Exhausted(Current(1)) /\ log' = log)
                        => \/ rows' = rows
                           \/ \E msg \in ErrorTexts :
                                  rows' = [rows EXCEPT ![Current(1).id].retry = @ + 1,
                                                      ![Current(1).id].lastError = msg]]_vars
    /\ \A i \in 1 .. MaxEvents + 1 :
           WaitsInBatch(i) ~> (relay[1].batch # <<>> /\ Current(1).id = i)

\* C28 witness: the first row of a batch failed and is not in the log, and
\* the second row of that batch has just been published.
C28_Witness ==
    \E i, j \in RowIds :
        /\ i < j
        /\ rows[i].retry = 1
        /\ ~InLog(i)
        /\ relay[1].batch # <<>>
        /\ Current(1).id = j
        /\ relay[1].sent
        /\ InLog(j)

\* The committed rows whose published_at is null.
Unpublished == {i \in RowIds : rows[i].state = "committed" /\ rows[i].published = NULL}

\* C29: the batch a fetch returns holds only committed rows with null
\* published_at, each once, in ascending created_at; it has batch_size rows,
\* or all unpublished rows if they are fewer; and no unpublished row left
\* out is older than a row returned.
C29_FetchOldestUnpublished ==
    [][(relay[1].batch = <<>> /\ relay'[1].batch # <<>>)
          => LET b == relay'[1].batch
             IN  /\ \A k \in 1 .. Len(b) : b[k].id \in Unpublished
                 /\ \A k \in 1 .. Len(b) : b[k].retry = rows[b[k].id].retry
                 /\ \A k, l \in 1 .. Len(b) :
                        k < l => /\ b[k].id # b[l].id
                                 /\ rows[b[k].id].created <= rows[b[l].id].created
                 /\ Len(b) = Min(BatchSize, Cardinality(Unpublished))
                 /\ \A j \in Unpublished :
                        (\A k \in 1 .. Len(b) : b[k].id # j)
                           => \A k \in 1 .. Len(b) : rows[b[k].id].created <= rows[j].created]_vars

\* C29 witness: a batch of batch_size rows has been fetched while a younger
\* unpublished row is in the table.
C29_Witness ==
    /\ Len(relay[1].batch) = BatchSize
    /\ \A k \in 1 .. BatchSize : relay[1].batch[k].id \in Unpublished
    /\ \E j \in Unpublished :
           \A k \in 1 .. BatchSize : rows[relay[1].batch[k].id].created < rows[j].created

\* C30: a step that changes the retry_count or the last_error of a row
\* changes them for the row the relay is handling only: its retry_count
\* grows by exactly 1, its last_error holds the error, its other columns and
\* all other rows are as before.
C30_MarkFailedFrame ==
    [][(\E i \in RowIds : \/ rows'[i].retry # rows[i].retry
                          \/ rows'[i].lastError # rows[i].lastError)
          => /\ relay[1].batch # <<>>
             /\ \E msg \in ErrorTexts :
                    rows' = [rows EXCEPT ![Current(1).id].retry = @ + 1,
                                        ![Current(1).id].lastError = msg]]_vars

\* C30 witness: a row has failed once and holds the error, while an older
\* row that was published has retry_count 0 and no error.
C30_Witness ==
    \E i, j \in RowIds :
        /\ j < i
        /\ rows[i].state = "committed"
        /\ rows[i].retry = 1
        /\ rows[i].lastError # NULL
        /\ rows[i].published = NULL
        /\ rows[j].state = "committed"
        /\ rows[j].published # NULL
        /\ rows[j].retry = 0
        /\ rows[j].lastError = NULL

\* A length that is safe for last_error: shorter than the longest error
\* text a publisher can return.
SafeLen == MaxErrLen - 1

\* C31 (as claimed): the last_error of a row is never longer than the safe
\* length, whatever the length of the publisher's error text.
C31_LastErrorTruncated ==
    \A i \in RowIds : rows[i].lastError <= SafeLen

\* C32: no step sets a non-null published_at back to null, and the batch a
\* relay instance fetches holds no row whose published_at is non-null.
C32_PublishedNeverCleared ==
    [][/\ \A i \in RowIds : rows[i].published # NULL => rows'[i].published # NULL
       /\ \A r \in DOMAIN relay :
              (relay[r].batch = <<>> /\ relay'[r].batch # <<>>)
                 => \A k \in 1 .. Len(relay'[r].batch) :
                        rows[relay'[r].batch[k].id].published = NULL]_vars

\* C32 witness: a row is published and has failed before or after that, and
\* a relay instance that fetched it while it was unpublished is about to
\* handle it.
C32_Witness ==
    \E i \in RowIds, r \in DOMAIN relay :
        /\ rows[i].published # NULL
        /\ rows[i].retry >= 1
        /\ relay[r].batch # <<>>
        /\ Current(r).id = i
        /\ ~relay[r].sent


\* C33: no error ends a loop.  The relay's publish loop, its cleanup loop
\* and the consumer loop leave "running" only by returning, and they return
\* only when the context is cancelled or Stop was called; a step that fails
\* (FetchUnpublished, the publisher, MarkFailed, MarkPublished,
\* CleanupOldEvents, the message fetch, the processing, the offset commit)
\* leaves every loop running.
C33_ErrorsKeepLoopsRunning ==
    [][/\ (relay[1].publishLoop = "running" /\ relay'[1].publishLoop # "running")
           => (relay'[1].publishLoop = "exited" /\ Signalled(1))
       /\ (relay[1].cleanupLoop = "running" /\ relay'[1].cleanupLoop # "running")
           => (relay'[1].cleanupLoop = "exited" /\ Signalled(1))
       /\ (cons.loop = "running" /\ cons'.loop # "running")
           => (cons'.loop = "exited" /\ ConsumerSignalled)]_vars

\* Witness for C33: errors were logged by the relay and by the consumer, a
\* publish failed, a message was left uncommitted by a failure, and all
\* three loops are running with no shutdown under way.
C33_Witness ==
    /\ relay[1].logged
    /\ cons.logged
    /\ \E i \in RowIds : rows[i].retry >= 1
    /\ cons.pc = "idle" /\ cons.cur > committed
    /\ relay[1].publishLoop = "running"
    /\ relay[1].cleanupLoop = "running"
    /\ cons.loop = "running"
    /\ ~Signalled(1)
    /\ ~ConsumerSignalled


\* C34: a shutdown that arrives while a message is being processed lets the
\* consumer finish that message: when the loop has returned, the message's
\* database transaction is committed (its event id is in processed_events),
\* its offset is committed, and no further message was fetched.
C34_FinishesCurrentMessage ==
    (cons.loop = "exited" /\ cons.atSignal > 0)
        => /\ log[cons.atSignal].id \in dedup
           /\ committed >= cons.atSignal
           /\ cons.cur = cons.atSignal


\* C35: after a shutdown in the middle of a batch the relay makes no publish
\* attempt for the rows that were waiting behind the one it was handling:
\* when such a row comes to the head of the batch, PublishEvent is not called
\* for it (the batch does not move past it and it is not sent).
C35_NoAttemptAfterShutdown ==
    [][(/\ relay[1].batch # <<>>
        /\ Current(1).id \in relay[1].waiting
        /\ ~relay[1].sent
        /\ ~Exhausted(Current(1)))
           => (relay'[1].batch = relay[1].batch /\ ~relay'[1].sent)]_vars


\* C36: for every SumNumbers request that succeeds, the sum in the response
\* equals x + y and equals the result in the payload of the outbox row the
\* request wrote, also when x + y is outside the range of the response's
\* integer type.
C36_ResponseIsSum ==
    \A p \in Slots :
        call[p].pc = "ok"
            => /\ ResponseSum(p) = call[p].x + call[p].y
               /\ ResponseSum(p) = rows[call[p].row].payload.result


\* C37: two concurrent calls Add(a) and Add(b) on the same storage that both
\* return without error increase the stored total by a + b.
C37_ConcurrentAddsSumUp ==
    (group[1].pc = "ok" /\ group[2].pc = "ok")
        => total = InitialTotal + group[1].v + group[2].v

====
